---------------------------- MODULE Spec2Model ----------------------------
(***************************************************************************)
(* A model of src/src/db.rs of emily-signet/compass: the compiler that     *)
(* turns a map of URL filter parameters into a jsonpath expression, flat   *)
(* SQL fragments with bound values, and the statements json_search and     *)
(* json_count send to the store.                                           *)
(*                                                                         *)
(* Text the code reads character by character (filter keys, raw values,    *)
(* atoms) is a sequence of one-character strings.  Text the code only      *)
(* writes is a string, built with \o exactly as the format! calls build    *)
(* it; Str turns the first kind into the second.                           *)
(***************************************************************************)
EXTENDS Integers, Sequences, FiniteSets, Bags, TLC

VARIABLES
    schema,          \* the Schema the call is given
    fields,          \* the filter map: key -> raw value
    caller,          \* "generate_where", "json_search" or "json_count"
    raw_query,       \* json_search's raw_query: None or Some(text)
    bind_index,      \* generate_where's bind_index argument
    force,           \* generate_where's force_json_query argument
    todo,            \* keys of `fields` the for loop has not visited yet
    visited,         \* keys in the order the loop visited them
    jsonb_filters,   \* Vec<String> of generate_where
    other_filters,   \* Vec<String> of generate_where
    other_bindings,  \* Vec<String> of generate_where
    pc,              \* position of the call
    result,          \* what generate_where returned (None before it returns)
    outcome,         \* what the caller returned (None before it returns)
    client,          \* the calls made on the store client, in order
    first            \* the previous run over an equal map (None: no previous run)

vars == <<schema, fields, caller, raw_query, bind_index, force, todo, visited,
          jsonb_filters, other_filters, other_bindings, pc, result, outcome,
          client, first>>

----------------------------------------------------------------------------
(* Bounds of the model *)

\* largest number of entries of a filter map in Spec and SpecTwice
MaxKeys == 2

\* largest number of chunks a raw value is made of in SpecOne
MaxChunks == 3

----------------------------------------------------------------------------
(* Text *)

None == [some |-> FALSE]
Some(x) == [some |-> TRUE, val |-> x]

Ok(x) == [ok |-> TRUE, val |-> x]
Err(e) == [ok |-> FALSE, err |-> e]

RECURSIVE Str(_)
Str(s) == IF s = <<>> THEN "" ELSE Head(s) \o Str(Tail(s))

RECURSIVE Join(_, _)
Join(v, sep) ==
    IF v = <<>> THEN ""
    ELSE IF Len(v) = 1 THEN v[1]
    ELSE v[1] \o sep \o Join(Tail(v), sep)

RECURSIVE Flatten(_)
Flatten(ss) == IF ss = <<>> THEN <<>> ELSE Head(ss) \o Flatten(Tail(ss))

Last(s) == s[Len(s)]
Front(s) == SubSeq(s, 1, Len(s) - 1)

StripSuffix(s, c) ==
    IF s # <<>> /\ Last(s) = c THEN Some(Front(s)) ELSE None

UnwrapOr(o, d) == IF o.some THEN o.val ELSE d

LowerCase == <<"a","b","c","d","e","f","g","h","i","j","k","l","m",
               "n","o","p","q","r","s","t","u","v","w","x","y","z">>
UpperCase == <<"A","B","C","D","E","F","G","H","I","J","K","L","M",
               "N","O","P","Q","R","S","T","U","V","W","X","Y","Z">>

ToUpperChar(c) ==
    IF \E i \in 1..26 : LowerCase[i] = c
    THEN UpperCase[CHOOSE i \in 1..26 : LowerCase[i] = c]
    ELSE c

ToUppercase(s) == [i \in 1..Len(s) |-> ToUpperChar(s[i])]

Digits == <<"0","1","2","3","4","5","6","7","8","9">>
IsDigit(c) == \E i \in 1..10 : Digits[i] = c
DigitVal(c) == (CHOOSE i \in 1..10 : Digits[i] = c) - 1

RECURSIVE DigitsValue(_, _)
DigitsValue(s, acc) ==
    IF s = <<>> THEN acc ELSE DigitsValue(Tail(s), 10 * acc + DigitVal(Head(s)))

\* str::parse::<i64>: an optional sign, then one or more decimal digits.  The
\* bounded inputs stay far below the 64-bit range, so the overflow error of
\* the parser never arises here.
Signed(x) == x # <<>> /\ Head(x) \in {"+", "-"}

ParseDigits(negative, body) ==
    IF body # <<>> /\ \A i \in 1..Len(body) : IsDigit(body[i])
    THEN Ok(IF negative THEN 0 - DigitsValue(body, 0) ELSE DigitsValue(body, 0))
    ELSE Err("InvalidNumberError")

ParseI64(x) ==
    IF Signed(x) THEN ParseDigits(Head(x) = "-", Tail(x)) ELSE ParseDigits(FALSE, x)

RECURSIVE NatToStr(_)
NatToStr(n) ==
    IF n < 10 THEN Digits[n + 1]
    ELSE NatToStr(n \div 10) \o Digits[(n % 10) + 1]

\* Display of an i64
IntToStr(n) == IF n < 0 THEN "-" \o NatToStr(0 - n) ELSE NatToStr(n)

\* str::parse::<bool>
ParseBool(x) ==
    IF x = <<"t","r","u","e">> THEN Ok(TRUE)
    ELSE IF x = <<"f","a","l","s","e">> THEN Ok(FALSE)
    ELSE Err("InvalidBoolError")

\* Display of a bool
BoolToStr(b) == IF b THEN "true" ELSE "false"

EXISTS == <<"e","x","i","s","t","s">>
NOTEXISTS == <<"n","o","t">> \o EXISTS

----------------------------------------------------------------------------
(* FieldQuery, the kinds of a schema field *)

Range(min, max, aliases) ==
    [kind |-> "Range", min |-> min, max |-> max, aliases |-> aliases]
Min == [kind |-> "Min"]
Max == [kind |-> "Max"]
Bool == [kind |-> "Bool"]
AmbiguousTag == [kind |-> "AmbiguousTag"]
NumericTag(aliases) == [kind |-> "NumericTag", aliases |-> aliases]
StringTag == [kind |-> "StringTag"]
Nested == [kind |-> "Nested"]
Fulltext(lang, syntax, target) ==
    [kind |-> "Fulltext", lang |-> lang, syntax |-> syntax, target |-> target]
Not(inner) == [kind |-> "Not", inner |-> inner]

NoAliases == [a \in {} |-> 0]

\* HashMap::get on an alias table
AliasGet(aliases, key) ==
    IF key \in DOMAIN aliases THEN Some(aliases[key]) ELSE None

----------------------------------------------------------------------------
(* The closures generate_one_field hands to parse_query_list *)

ExistsTest(name) == "(exists($." \o Str(name) \o "))"
NotExistsTest(name) == "(!exists($." \o Str(name) \o "))"
NumEq(name, n) == "($." \o Str(name) \o " == " \o IntToStr(n) \o ")"
BoolEq(name, b) == "($." \o Str(name) \o " == " \o BoolToStr(b) \o ")"
GreaterThan(name, n) == "($." \o Str(name) \o " > " \o IntToStr(n) \o ")"
LessThan(name, n) == "($." \o Str(name) \o " < " \o IntToStr(n) \o ")"

\* format!("($.{} == \"{}\")", field.0, x), one element per piece of text the
\* format string and its arguments contribute, the atom one character each
StringEqTokens(name, x) ==
    <<"($.">> \o name \o <<" == ", "\"">> \o x \o <<"\"", ")">>

StringEq(name, x) == Str(StringEqTokens(name, x))

\* "(($.{field} == {value}) || ($.{field} == \"{value}\"))"
NumOrStringEq(name, n) ==
    "(($." \o Str(name) \o " == " \o IntToStr(n) \o ") || ($." \o Str(name)
        \o " == \"" \o IntToStr(n) \o "\"))"

\* The closures below take what the code computes once (the parsed atom, the
\* alias found) as a parameter: `int` is x.parse::<i64>(), `bool` is
\* x.parse::<bool>(), `alias` is aliases.get(&x.to_uppercase()).

RangeArm(name, x, alias, int) ==
    IF x = EXISTS THEN Ok(ExistsTest(name))
    ELSE IF x = NOTEXISTS THEN Ok(NotExistsTest(name))
    ELSE IF alias.some THEN Ok(NumEq(name, alias.val))
    ELSE IF int.ok THEN Ok(NumEq(name, int.val))
    ELSE int

RangeGen(name, aliases, x) ==
    RangeArm(name, x, AliasGet(aliases, ToUppercase(x)), ParseI64(x))

MinArm(name, int) == IF int.ok THEN Ok(GreaterThan(name, int.val)) ELSE int

MinGen(name, x) == MinArm(name, ParseI64(x))

MaxArm(name, int) == IF int.ok THEN Ok(LessThan(name, int.val)) ELSE int

MaxGen(name, x) == MaxArm(name, ParseI64(x))

BoolArm(name, x, bool) ==
    IF x = EXISTS THEN Ok(ExistsTest(name))
    ELSE IF x = NOTEXISTS THEN Ok(NotExistsTest(name))
    ELSE IF bool.ok THEN Ok(BoolEq(name, bool.val))
    ELSE bool

BoolGen(name, x) == BoolArm(name, x, ParseBool(x))

AmbiguousArm(name, x, int, bool) ==
    Ok("(" \o Join((IF int.ok THEN <<NumEq(name, int.val)>>
                    ELSE IF bool.ok THEN <<BoolEq(name, bool.val)>>
                    ELSE IF x = EXISTS THEN <<ExistsTest(name)>>
                    ELSE IF x = NOTEXISTS THEN <<NotExistsTest(name)>>
                    ELSE <<>>)
                   \o <<StringEq(name, x)>>, " || ") \o ")")

\* the closure of AmbiguousTag and, word for word, of Nested
AmbiguousGen(name, x) == AmbiguousArm(name, x, ParseI64(x), ParseBool(x))

NumericArm(name, x, alias, int) ==
    IF x = EXISTS THEN Ok(ExistsTest(name))
    ELSE IF x = NOTEXISTS THEN Ok(NotExistsTest(name))
    ELSE IF alias.some THEN Ok(NumOrStringEq(name, alias.val))
    ELSE IF int.ok THEN Ok(NumOrStringEq(name, int.val))
    ELSE int

NumericGen(name, aliases, x) ==
    NumericArm(name, x, AliasGet(aliases, ToUppercase(x)), ParseI64(x))

StringGen(name, x) == Ok(StringEq(name, x))

\* filter_gen: the closure of the kind, applied to one atom
FilterGen(kind, name, x) ==
    CASE kind.kind = "Range" -> RangeGen(name, kind.aliases, x)
      [] kind.kind = "Min" -> MinGen(name, x)
      [] kind.kind = "Max" -> MaxGen(name, x)
      [] kind.kind = "Bool" -> BoolGen(name, x)
      [] kind.kind = "AmbiguousTag" -> AmbiguousGen(name, x)
      [] kind.kind = "NumericTag" -> NumericGen(name, kind.aliases, x)
      [] kind.kind = "StringTag" -> StringGen(name, x)
      [] kind.kind = "Nested" -> AmbiguousGen(name, x)

----------------------------------------------------------------------------
(* parse_query_list *)

IndexOf(q, c) ==
    IF \E i \in 1..Len(q) : q[i] = c
    THEN CHOOSE i \in 1..Len(q) : q[i] = c /\ \A j \in 1..(i - 1) : q[j] # c
    ELSE 0

\* str::split_inclusive(c): the pieces of q, each ending with its c; a last
\* piece without c when q does not end with c; no piece at all for "".
\* `at` is the place of the first c in q (0: none).
RECURSIVE SplitInclusive(_, _)
SplitAt(q, c, at) ==
    IF at = 0 THEN <<q>>
    ELSE <<SubSeq(q, 1, at)>> \o SplitInclusive(SubSeq(q, at + 1, Len(q)), c)

SplitInclusive(q, c) == IF q = <<>> THEN <<>> ELSE SplitAt(q, c, IndexOf(q, c))

AND_ == <<"a","n","d","_">>
OR_ == <<"o","r","_">>

\* curr_filter.strip_suffix('_').unwrap_or(&curr_filter)
FilterString(curr_filter) == UnwrapOr(StripSuffix(curr_filter, "_"), curr_filter)

\* the two pushes of the and_ arm and of the or_ arm, which differ in the
\* operator only; `filter` is filter_gen(filter_string), and its error returns
RECURSIVE QueryListLoop(_, _, _, _, _)
PushOperator(iter, filters, filter, operator, kind, name) ==
    IF filter.ok
    THEN QueryListLoop(iter, filters \o <<filter.val, operator>>, <<>>, kind, name)
    ELSE filter

\* after the loop: `if !curr_filter.is_empty()`; `filter` is
\* filter_gen(&curr_filter)
PushLast(filters, empty, filter) ==
    IF empty THEN Ok(filters)
    ELSE IF filter.ok THEN Ok(Append(filters, filter.val))
    ELSE filter

\* the for loop over the pieces and the tail after it; returns the Vec
\* `filters`, or the first error of filter_gen
QueryListLoop(iter, filters, curr_filter, kind, name) ==
    IF iter = <<>>
    THEN PushLast(filters, curr_filter = <<>>, FilterGen(kind, name, curr_filter))
    ELSE IF Head(iter) = AND_ \/ Head(iter) = OR_
    THEN PushOperator(Tail(iter), filters,
                      FilterGen(kind, name, FilterString(curr_filter)),
                      IF Head(iter) = AND_ THEN "&&" ELSE "||", kind, name)
    ELSE QueryListLoop(Tail(iter), filters, curr_filter \o Head(iter), kind, name)

QueryListFilters(q, kind, name) ==
    QueryListLoop(SplitInclusive(q, "_"), <<>>, <<>>, kind, name)

\* format!("({})", filters.join(" "))
Parenthesized(filters) ==
    IF filters.ok THEN Ok("(" \o Join(filters.val, " ") \o ")") ELSE filters

parse_query_list(q, kind, name) == Parenthesized(QueryListFilters(q, kind, name))

----------------------------------------------------------------------------
(* generate_one_field *)

\* the three Vecs generate_one_field writes to
Lists(jsonb, filters, bindings) ==
    [jsonb |-> jsonb, filters |-> filters, bindings |-> bindings]

\* a numbering that starts one placeholder too far
FulltextParameterShifted(filters, index) == Len(filters) + index + 1

\* parameter = other_filters.len() + bind_index
FulltextParameter(filters, index) == Len(filters) + index

\* "to_tsvector('{lang}',object->>'{key}') @@ {function}('{lang}',${parameter})"
FulltextSql(lang, key, function, parameter) ==
    "to_tsvector('" \o lang \o "',object->>'" \o key \o "') @@ " \o function
        \o "('" \o lang \o "',$" \o IntToStr(parameter) \o ")"

\* key = target.as_ref().unwrap_or(field.0)
FulltextKey(kind, name) == UnwrapOr(kind.target, Str(name))

\* an assignment where the code pushes: only the last filter is kept
PushFilterOverwrites(jsonb, filter) == <<filter>>

\* jsonb_filters.push(filters)
PushFilter(jsonb, filter) == Append(jsonb, filter)

Negated(jsonb) == [i \in 1..Len(jsonb) |-> "!(" \o jsonb[i] \o ")"]

\* a Not arm that also hands the inner flat fragments and bound values on
NotMergeKeepsFlat(outer, inner) ==
    Lists(outer.jsonb \o Negated(inner.jsonb), outer.filters \o inner.filters,
          outer.bindings \o inner.bindings)

\* the Not arm after the inner call returned: only the inner jsonb filters,
\* each negated, reach the outer lists; the scratch Vecs are dropped
NotMerge(outer, inner) ==
    Lists(outer.jsonb \o Negated(inner.jsonb), outer.filters, outer.bindings)

\* Ok(the three Vecs as the call leaves them) or the error the call returns.
\* In the Not arm the code passes not_other_bindings where other_filters
\* is expected and not_other_filters where other_bindings is expected.
NotArm(lists, inner) == IF inner.ok THEN Ok(NotMerge(lists, inner.val)) ELSE inner

\* `let filters = parse_query_list(..)?; jsonb_filters.push(filters);`
JsonbArm(lists, filters) ==
    IF filters.ok
    THEN Ok(Lists(PushFilter(lists.jsonb, filters.val), lists.filters, lists.bindings))
    ELSE filters

FulltextArm(v, name, kind, lists, index) ==
    Ok(Lists(lists.jsonb,
             Append(lists.filters,
                    FulltextSql(kind.lang, FulltextKey(kind, name), kind.syntax,
                                FulltextParameter(lists.filters, index))),
             Append(lists.bindings, Str(v))))

RECURSIVE generate_one_field(_, _, _, _, _)
generate_one_field(v, name, kind, lists, index) ==
    IF kind.kind = "Fulltext" THEN FulltextArm(v, name, kind, lists, index)
    ELSE IF kind.kind = "Not"
    THEN NotArm(lists, generate_one_field(v, name, kind.inner,
                                          Lists(<<>>, <<>>, <<>>), index))
    ELSE JsonbArm(lists, parse_query_list(v, kind, name))

----------------------------------------------------------------------------
(* generate_where: the match that resolves a key *)

Field(name, query) == [name |-> name, query |-> query]

\* k.split('.').next().unwrap()
Before(k, at) == IF at = 0 THEN k ELSE SubSeq(k, 1, at - 1)

SplitFirst(k, c) == Before(k, IndexOf(k, c))

\* a resolver that keeps the alias as the name of the field
AliasTargetIsKey(f, k) == k

\* the name a Range field gives a key that is its min or max alias:
\* f.0.to_owned(), the name of the Range field
AliasTarget(f, k) == f

\* the closure of find_map, for the schema field f
FindNestedOne(s, f, k) ==
    IF s.fields[f].kind = "Range"
    THEN IF k = s.fields[f].min THEN Some(Field(AliasTarget(f, k), Min))
         ELSE IF k = s.fields[f].max THEN Some(Field(AliasTarget(f, k), Max))
         ELSE None
    ELSE IF s.fields[f].kind = "Nested"
    THEN IF SplitFirst(k, ".") = f THEN Some(Field(k, Nested)) ELSE None
    ELSE None

\* find_nested: find_map takes the first field, in the iteration order of the
\* HashMap schema.fields, whose closure returns Some.  That order is not
\* specified, so each such field may be the one found.
OneOf(found) == IF found = {} THEN {None} ELSE found

FindNested(s, k) == OneOf({FindNestedOne(s, f, k) : f \in DOMAIN s.fields} \ {None})

WrapNot(o) == IF o.some THEN Some(Field(o.val.name, Not(o.val.query))) ELSE None

\* the `if let Some(f) = k.strip_suffix('!')` arm: a field found by the name f
\* keeps the key k, marker included, as its name
Stripped(s, k, f) ==
    IF f \in DOMAIN s.fields
    THEN {Some(Field(k, Not(s.fields[f])))}
    ELSE {WrapNot(o) : o \in FindNested(s, f)}

\* the values field_maybe can take for the key k
FieldMaybe(s, k) ==
    IF k \in DOMAIN s.fields THEN {Some(Field(k, s.fields[k]))}
    ELSE IF StripSuffix(k, "!").some THEN Stripped(s, k, StripSuffix(k, "!").val)
    ELSE FindNested(s, k)

----------------------------------------------------------------------------
(* generate_where: the clauses built after the loop *)

MapGet(m, k) == IF k \in DOMAIN m THEN Some(m[k]) ELSE None

SORTORDER == <<"s","o","r","t","o","r","d","e","r">>
SORTBY == <<"s","o","r","t","b","y">>
LIMIT == <<"l","i","m","i","t">>
OFFSET == <<"o","f","f","s","e","t">>

JsonQuery(jsonb) == "(" \o Join(jsonb, " && ") \o ")"

\* a clause builder that forgets force_json_query
WhereClauseUnforced(jsonb, filters, force_json_query) ==
    IF jsonb # <<>> /\ filters = <<>>
    THEN "WHERE object @@ CAST($1 AS JSONPATH)"
    ELSE IF jsonb # <<>> /\ filters # <<>>
    THEN "WHERE object @@ CAST($1 AS JSONPATH) AND " \o Join(filters, " AND ")
    ELSE IF filters # <<>>
    THEN "WHERE " \o Join(filters, " AND ")
    ELSE ""

WhereClause(jsonb, filters, force_json_query) ==
    IF (jsonb # <<>> \/ force_json_query) /\ filters = <<>>
    THEN "WHERE object @@ CAST($1 AS JSONPATH)"
    ELSE IF (jsonb # <<>> \/ force_json_query) /\ filters # <<>>
    THEN "WHERE object @@ CAST($1 AS JSONPATH) AND " \o Join(filters, " AND ")
    ELSE IF filters # <<>>
    THEN "WHERE " \o Join(filters, " AND ")
    ELSE ""

AscOrDesc(ord) == IF ord = "ASC" \/ ord = "DESC" THEN ord ELSE "ASC"

SortOrder(m) ==
    IF MapGet(m, SORTORDER).some
    THEN AscOrDesc(Str(ToUppercase(MapGet(m, SORTORDER).val)))
    ELSE "DESC"

OrderString(m) ==
    " ORDER BY (object #> ($2)::text[]) " \o SortOrder(m)
        \o ", doc_id NULLS LAST LIMIT $3 OFFSET $4"

\* Ok((query, order_string, json_query, other_bindings))
WhereResult(m, jsonb, filters, bindings, force_json_query) ==
    Ok([query |-> WhereClause(jsonb, filters, force_json_query),
        order_string |-> OrderString(m),
        json_query |-> JsonQuery(jsonb),
        other_bindings |-> bindings])

----------------------------------------------------------------------------
(* json_search and json_count: what they send to the store *)

SearchQuery(s, query, sort_string) ==
    "SELECT object FROM " \o s.table \o " " \o query \o " " \o sort_string

CountQuery(s, query) == "SELECT COUNT(*) FROM " \o s.table \o " " \o query

SortBy(s, m) ==
    IF MapGet(m, SORTBY).some THEN Str(MapGet(m, SORTBY).val) ELSE s.default_order_by

\* limit and offset: the parsed value, the default when the key is absent
ParsedOr(m, k, default) ==
    IF MapGet(m, k).some THEN ParseI64(MapGet(m, k).val) ELSE Ok(default)

DefaultLimit == 100
DefaultOffset == 0

\* json_query as json_search sends it: raw_query when given
SearchJsonQuery(raw, json_query) == IF raw.some THEN raw.val ELSE json_query

SearchParams(s, m, raw, where) ==
    <<SearchJsonQuery(raw, where.json_query), SortBy(s, m),
      ParsedOr(m, LIMIT, DefaultLimit).val, ParsedOr(m, OFFSET, DefaultOffset).val>>
        \o where.other_bindings

CountParams(where) == <<where.json_query>> \o where.other_bindings

SearchBindIndex == 5
CountBindIndex == 2

----------------------------------------------------------------------------
(* The schemas and filter maps the calls are given *)

K_g == <<"g">>
K_y == <<"y">>
K_yn == <<"y","n">>
K_yx == <<"y","x">>
K_z == <<"z">>
K_zn == <<"z","n">>
K_zx == <<"z","x">>
K_t == <<"t">>
K_s == <<"s">>
K_m == <<"m">>
K_ma == <<"m",".","a">>
K_b == <<"b">>
K_a == <<"a">>
K_n == <<"n">>
K_u == <<"u">>

Bang(k) == k \o <<"!">>

\* one field of every kind a schema can declare
SchemaA ==
    [table |-> "docs",
     default_order_by |-> "id",
     fields |->
        (K_g :> StringTag)
        @@ (K_y :> Range(K_yn, K_yx, (<<"X">> :> 7)))
        @@ (K_t :> Fulltext("english", "plainto_tsquery", None))
        @@ (K_s :> Fulltext("simple", "phraseto_tsquery", Some("title")))
        @@ (K_m :> Nested)
        @@ (K_b :> Bool)
        @@ (K_a :> AmbiguousTag)
        @@ (K_n :> NumericTag((<<"X">> :> 7)))]

\* SchemaA with a second Range field, and a field named like y's min alias
SchemaB ==
    [SchemaA EXCEPT !.fields =
        SchemaA.fields @@ (K_yn :> StringTag)
                       @@ (K_z :> Range(K_zn, K_zx, NoAliases))]

Schemas == {SchemaA, SchemaB}

V_1 == <<"1">>
V_1_or_x == <<"1","_","o","r","_","x">>
V_0_and_1 == <<"0","_","a","n","d","_","1">>
V_asc == <<"a","s","c">>

\* the keys and values of the filter maps of Spec and SpecTwice
Keys == {K_g, K_yn, K_yx, K_t, K_s, Bang(K_t), LIMIT, OFFSET, SORTORDER}

ValuesOf(k) ==
    IF k = SORTORDER THEN {V_1, V_asc}
    ELSE IF k \in {K_yn, K_yx} THEN {V_1, V_1_or_x, V_0_and_1}
    ELSE {V_1, V_1_or_x}

MapsOver(ks) ==
    {m \in [ks -> UNION {ValuesOf(k) : k \in ks}] : \A k \in ks : m[k] \in ValuesOf(k)}

FilterMaps == UNION {MapsOver(ks) : ks \in {x \in SUBSET Keys : Cardinality(x) <= MaxKeys}}

\* the raw values of SpecOne: up to MaxChunks chunks, one after the other
Chunks ==
    {<<"1">>, <<"0">>, <<"x">>, <<"_">>, AND_, <<"_">> \o AND_, <<"_">> \o OR_,
     <<"\"">>, <<"\\">>, <<"t","r","u","e">>}

RECURSIVE ChunkSeqs(_)
ChunkSeqs(n) ==
    IF n = 0 THEN {<<>>}
    ELSE ChunkSeqs(n - 1) \cup {c \o w : c \in Chunks, w \in ChunkSeqs(n - 1)}

RichValues == ChunkSeqs(MaxChunks)

\* the keys of SpecOne
OneKeys ==
    {K_g, K_y, K_yn, K_yx, K_t, K_ma, K_b, K_a, K_n, K_u,
     Bang(K_g), Bang(K_y), Bang(K_yn), Bang(K_ma), Bang(K_t), Bang(K_a)}

----------------------------------------------------------------------------
(* The calls, step by step *)

Start(s, m, c, raw, index, force_json_query) ==
    /\ schema = s
    /\ fields = m
    /\ caller = c
    /\ raw_query = raw
    /\ bind_index = index
    /\ force = force_json_query
    /\ todo = DOMAIN m
    /\ visited = <<>>
    /\ jsonb_filters = <<>>
    /\ other_filters = <<>>
    /\ other_bindings = <<>>
    /\ pc = "loop"
    /\ result = None
    /\ outcome = None
    /\ client = <<>>
    /\ first = None

\* a call of generate_where, of json_search or of json_count
Init ==
    \E s \in Schemas, m \in FilterMaps :
        \/ \E f \in BOOLEAN : Start(s, m, "generate_where", None, 1, f)
        \/ \E raw \in {None, Some("($.g == 1)")} :
              Start(s, m, "json_search", raw, SearchBindIndex, raw.some)
        \/ Start(s, m, "json_count", None, CountBindIndex, FALSE)

\* generate_where on a filter map of one entry
InitOne ==
    \E k \in OneKeys, v \in RichValues :
        Start(SchemaA, (k :> v), "generate_where", None, 1, FALSE)

Suffix(new, old) == SubSeq(new, Len(old) + 1, Len(new))

\* `if let Some(field) = field_maybe { generate_one_field(..)?; }`
Generated(v, field_maybe, lists, index) ==
    IF field_maybe.some
    THEN generate_one_field(v, field_maybe.val.name, field_maybe.val.query, lists, index)
    ELSE Ok(lists)

\* one iteration of `for (k, v) in fields`: the HashMap hands out the entries
\* in an order the code does not control
NextEntry ==
    /\ pc = "loop"
    /\ \E k \in todo : \E field_maybe \in FieldMaybe(schema, k) :
       \E done \in {Generated(fields[k], field_maybe,
                              Lists(jsonb_filters, other_filters, other_bindings),
                              bind_index)} :
          /\ todo' = todo \ {k}
          /\ visited' = Append(visited,
                               [key |-> k, field |-> field_maybe, ok |-> done.ok,
                                jsonb |-> IF done.ok
                                          THEN Suffix(done.val.jsonb, jsonb_filters)
                                          ELSE <<>>])
          /\ jsonb_filters' = IF done.ok THEN done.val.jsonb ELSE jsonb_filters
          /\ other_filters' = IF done.ok THEN done.val.filters ELSE other_filters
          /\ other_bindings' = IF done.ok THEN done.val.bindings ELSE other_bindings
          /\ result' = IF done.ok THEN result ELSE done
          /\ outcome' = IF done.ok THEN outcome ELSE done
          /\ pc' = IF done.ok THEN "loop" ELSE "returned"
    /\ UNCHANGED <<schema, fields, caller, raw_query, bind_index, force, client, first>>

\* the rest of generate_where, and its return to the caller
BuildQuery ==
    /\ pc = "loop"
    /\ todo = {}
    /\ result' = WhereResult(fields, jsonb_filters, other_filters, other_bindings, force)
    /\ outcome' = IF caller = "generate_where" THEN result' ELSE outcome
    /\ pc' = IF caller = "generate_where" THEN "returned" ELSE "prepare"
    /\ UNCHANGED <<schema, fields, caller, raw_query, bind_index, force, todo, visited,
                   jsonb_filters, other_filters, other_bindings, client, first>>

StatementText ==
    IF caller = "json_search"
    THEN SearchQuery(schema, result.val.query, result.val.order_string)
    ELSE CountQuery(schema, result.val.query)

\* client.prepare_typed: the store accepts the statement or answers an error
Prepare ==
    /\ pc = "prepare"
    /\ client' = Append(client, [op |-> "prepare_typed", query |-> StatementText])
    /\ \E accepted \in BOOLEAN :
          /\ pc' = IF ~accepted THEN "returned"
                   ELSE IF caller = "json_search" THEN "params" ELSE "query"
          /\ outcome' = IF accepted THEN outcome ELSE Err("PGError")
    /\ UNCHANGED <<schema, fields, caller, raw_query, bind_index, force, todo, visited,
                   jsonb_filters, other_filters, other_bindings, result, first>>

\* json_search between prepare_typed and query_raw: sort_by, limit, offset
BindParams ==
    /\ pc = "params"
    /\ \E limit \in {ParsedOr(fields, LIMIT, DefaultLimit)},
          offset \in {ParsedOr(fields, OFFSET, DefaultOffset)} :
          /\ pc' = IF limit.ok /\ offset.ok THEN "query" ELSE "returned"
          /\ outcome' = IF ~limit.ok THEN limit
                        ELSE IF ~offset.ok THEN offset
                        ELSE outcome
    /\ UNCHANGED <<schema, fields, caller, raw_query, bind_index, force, todo, visited,
                   jsonb_filters, other_filters, other_bindings, result, client, first>>

\* client.query_raw and what the caller makes of the answer
QueryRaw ==
    /\ pc = "query"
    /\ client' = Append(client,
                        [op |-> "query_raw",
                         params |-> IF caller = "json_search"
                                    THEN SearchParams(schema, fields, raw_query, result.val)
                                    ELSE CountParams(result.val)])
    /\ \E answered \in BOOLEAN :
          outcome' = IF answered THEN Ok("rows") ELSE Err("PGError")
    /\ pc' = "returned"
    /\ UNCHANGED <<schema, fields, caller, raw_query, bind_index, force, todo, visited,
                   jsonb_filters, other_filters, other_bindings, result, first>>

\* generate_where called once more with an equal schema and an equal filter
\* map: the first run is kept for comparison
RunAgain ==
    /\ pc = "returned"
    /\ caller = "generate_where"
    /\ first = None
    /\ first' = Some([result |-> result, visited |-> visited,
                      lists |-> Lists(jsonb_filters, other_filters, other_bindings)])
    /\ todo' = DOMAIN fields
    /\ visited' = <<>>
    /\ jsonb_filters' = <<>>
    /\ other_filters' = <<>>
    /\ other_bindings' = <<>>
    /\ pc' = "loop"
    /\ result' = None
    /\ outcome' = None
    /\ UNCHANGED <<schema, fields, caller, raw_query, bind_index, force, client>>

Next == NextEntry \/ BuildQuery \/ Prepare \/ BindParams \/ QueryRaw

NextOne == NextEntry \/ BuildQuery

NextTwice == NextEntry \/ BuildQuery \/ RunAgain

Spec == Init /\ [][Next]_vars

SpecOne == InitOne /\ [][NextOne]_vars

InitTwice == Init /\ caller = "generate_where"

SpecTwice == InitTwice /\ [][NextTwice]_vars

----------------------------------------------------------------------------
(* Properties *)

Substrings(v) == {SubSeq(v, i, j) : i \in 1..(Len(v) + 1), j \in 0..Len(v)}

\* v holds the token and_ or the token or_: the text and_ or or_ at the start
\* of v or right after an underscore
HasSeparator(v) ==
    \E i \in 1..Len(v), t \in {AND_, OR_} :
        /\ i = 1 \/ v[i - 1] = "_"
        /\ i + Len(t) - 1 <= Len(v)
        /\ SubSeq(v, i, i + Len(t) - 1) = t

IsOperator(t) == t \in {"&&", "||"}

OperatorOf(sep) == IF sep = AND_ THEN "&&" ELSE "||"

IsFulltextVisit(e) == e.field.some /\ e.field.val.query.kind = "Fulltext"

BagOf(seq) ==
    [x \in {seq[i] : i \in DOMAIN seq} |-> Cardinality({i \in DOMAIN seq : seq[i] = x})]

NoLists == Lists(<<>>, <<>>, <<>>)

\* C1: a key f! that is not itself a field, where f resolves to a kind other
\* than Fulltext, compiles to "!(" + F + ")", F being what the key f compiles
\* to with the same value: the negated fragment tests the canonical field.
C1_NegatedKeyTestsCanonicalField ==
    \A i \in DOMAIN visited :
        LET e == visited[i]
            f == StripSuffix(e.key, "!")
        IN  (/\ f.some
             /\ e.key \notin DOMAIN schema.fields
             /\ \E r \in FieldMaybe(schema, f.val) :
                   r.some /\ r.val.query.kind # "Fulltext")
            => \E r \in FieldMaybe(schema, f.val) :
               \E plain \in {Generated(fields[e.key], r, NoLists, bind_index)} :
                  /\ e.ok = plain.ok
                  /\ e.ok => e.jsonb = [j \in 1..Len(plain.val.jsonb) |->
                                            "!(" \o plain.val.jsonb[j] \o ")"]

\* the atom with a backslash before each double quote and each backslash
Escape(x) ==
    Flatten([i \in 1..Len(x) |->
                IF x[i] \in {"\"", "\\"} THEN <<"\\", x[i]>> ELSE <<x[i]>>])

\* what stands between the two quotes the generator writes
LiteralBody(name, x) ==
    SubSeq(StringEqTokens(name, x), Len(name) + 4, Len(StringEqTokens(name, x)) - 2)

\* read as a jsonpath string, the body holds no quote that ends the literal
\* and no backslash that takes the closing quote
RECURSIVE ClosedByGenerator(_)
ClosedByGenerator(body) ==
    IF body = <<>> THEN TRUE
    ELSE IF Head(body) = "\"" THEN FALSE
    ELSE IF Head(body) = "\\"
    THEN Len(body) >= 2 /\ ClosedByGenerator(Tail(Tail(body)))
    ELSE ClosedByGenerator(Tail(body))

\* C2: in the string-equality fragment of every atom the StringTag,
\* AmbiguousTag and Nested generators translate, the quotes and backslashes
\* of the atom are escaped, and the literal is closed only by the quote the
\* generator writes.
C2_StringAtomsEscaped ==
    \A i \in DOMAIN visited :
        LET e == visited[i]
        IN  (/\ e.field.some
             /\ e.ok
             /\ e.field.val.query.kind \in {"StringTag", "AmbiguousTag", "Nested"})
            => \E fs \in {QueryListFilters(fields[e.key], e.field.val.query,
                                           e.field.val.name).val} :
                  /\ e.jsonb = <<"(" \o Join(fs, " ") \o ")">>
                  /\ \A x \in Substrings(fields[e.key]) :
                        (\E j \in DOMAIN fs :
                            fs[j] = FilterGen(e.field.val.query, e.field.val.name, x).val)
                        => /\ LiteralBody(e.field.val.name, x) = Escape(x)
                           /\ ClosedByGenerator(LiteralBody(e.field.val.name, x))

\* C4: the fragment of a value whose atoms translate is "(" + body + ")",
\* every operator of body has a translated atom on its left and on its right,
\* and a value of two atoms around one separator gives the two translations
\* in order around the operator of that separator.
C4_OperatorsJoinTranslatedAtoms ==
    \A i \in DOMAIN visited :
        LET e == visited[i]
        IN  (/\ e.field.some
             /\ e.ok
             /\ e.field.val.query.kind \notin {"Fulltext", "Not"})
            => \E fs \in {QueryListFilters(fields[e.key], e.field.val.query,
                                           e.field.val.name).val} :
                  /\ e.jsonb = <<"(" \o Join(fs, " ") \o ")">>
                  /\ \A j \in DOMAIN fs :
                        IsOperator(fs[j])
                        => /\ j > 1
                           /\ j < Len(fs)
                           /\ ~IsOperator(fs[j - 1])
                           /\ ~IsOperator(fs[j + 1])
                  /\ \A a \in Substrings(fields[e.key]), b \in Substrings(fields[e.key]),
                        sep \in {AND_, OR_} :
                        (/\ fields[e.key] = a \o <<"_">> \o sep \o b
                         /\ ~HasSeparator(a \o <<"_">>)
                         /\ ~HasSeparator(b)
                         /\ b # <<>>)
                        => e.jsonb =
                             <<"(" \o FilterGen(e.field.val.query, e.field.val.name, a).val
                                \o " " \o OperatorOf(sep) \o " "
                                \o FilterGen(e.field.val.query, e.field.val.name, b).val
                                \o ")">>

\* C5: a value without a separator token, the empty value included, is
\* translated once and whole: the fragment is "(" + translation + ")", and
\* the error of the translator is the error of the call.
C5_NoSeparatorTranslatesWholeValue ==
    \A i \in DOMAIN visited :
        LET e == visited[i]
        IN  (/\ e.field.some
             /\ e.field.val.query.kind \notin {"Fulltext", "Not"}
             /\ ~HasSeparator(fields[e.key]))
            => \E whole \in {FilterGen(e.field.val.query, e.field.val.name,
                                       fields[e.key])} :
                  IF whole.ok
                  THEN e.ok /\ e.jsonb = <<"(" \o whole.val \o ")">>
                  ELSE ~e.ok /\ result = whole

\* every key of the map resolves in one way only, whatever the order in which
\* find_map visits the fields of the schema
Unambiguous == \A k \in DOMAIN fields : Cardinality(FieldMaybe(schema, k)) = 1

Returned == pc = "returned" /\ result # None

\* C3: a second run of generate_where on the same schema, filter map, bind
\* index and force flag returns what the first run returned, in all four
\* outputs.
C3_RunsIdentical == (first # None /\ Returned) => result = first.val.result

\* C3, amended: when no key matches more than one field in the alias and
\* prefix scan, the two runs both fail or both succeed; when they succeed
\* they agree on the order clause, on the document-path fragments and the
\* bound values as multisets and on the number of flat fragments; the
\* document-path text is identical when at most one fragment was produced,
\* the filter clause and the list of bound values when at most one flat
\* fragment was produced.
C3_RunsAgreeUpToOrder ==
    (first # None /\ Returned /\ Unambiguous)
    => /\ result.ok = first.val.result.ok
       /\ result.ok
          => /\ result.val.order_string = first.val.result.val.order_string
             /\ BagOf(jsonb_filters) = BagOf(first.val.lists.jsonb)
             /\ BagOf(other_bindings) = BagOf(first.val.lists.bindings)
             /\ Len(other_filters) = Len(first.val.lists.filters)
             /\ Len(jsonb_filters) <= 1
                => result.val.json_query = first.val.result.val.json_query
             /\ Len(other_filters) <= 1
                => /\ result.val.query = first.val.result.val.query
                   /\ result.val.other_bindings = first.val.result.val.other_bindings

\* two runs that visited two fragment-producing keys in opposite orders
C3_TwoOrdersCompared ==
    /\ first # None
    /\ Returned
    /\ Unambiguous
    /\ result.ok
    /\ Len(jsonb_filters) = 2
    /\ Len(visited) = 2
    /\ visited[1].key = first.val.visited[2].key
    /\ visited[2].key = first.val.visited[1].key
    /\ result.val.json_query # first.val.result.val.json_query

\* C6: the filter clause has one of four shapes, decided by J (a
\* document-path fragment was produced, or the force flag is set) and F (a
\* flat fragment was produced); with no recognized key and the flag off it is
\* empty.
C6_FilterClauseShapes ==
    (result # None /\ result.ok)
    => \E J \in {force \/ \E i \in DOMAIN visited : visited[i].jsonb # <<>>},
          F \in {\E i \in DOMAIN visited : IsFulltextVisit(visited[i])} :
          /\ result.val.query =
                (IF J /\ F
                 THEN "WHERE object @@ CAST($1 AS JSONPATH) AND "
                          \o Join(other_filters, " AND ")
                 ELSE IF J THEN "WHERE object @@ CAST($1 AS JSONPATH)"
                 ELSE IF F THEN "WHERE " \o Join(other_filters, " AND ")
                 ELSE "")
          /\ (~force /\ \A k \in DOMAIN fields : FieldMaybe(schema, k) = {None})
             => result.val.query = ""

\* a forced call that produced no fragment at all, so that the flag alone
\* decides the shape
C6_ForcedWithoutFragments ==
    /\ result # None
    /\ result.ok
    /\ force
    /\ jsonb_filters = <<>>
    /\ other_filters = <<>>
    /\ fields # <<>>
    /\ result.val.query = "WHERE object @@ CAST($1 AS JSONPATH)"

\* C7: there are as many flat fragments as bound values, one per Fulltext
\* key visited; the k-th fragment (from 0) names placeholder $(b + k), the
\* k-th bound value is the whole raw value of its key, and in the parameter
\* list json_search (b = 5) and json_count (b = 2) send, the value stands at
\* the place its placeholder names.
C7_PlaceholdersNameTheirValues ==
    \E ft \in {SelectSeq(visited, IsFulltextVisit)} :
        /\ Len(other_filters) = Len(ft)
        /\ Len(other_bindings) = Len(ft)
        /\ \A k \in 1..Len(ft) :
              LET q == ft[k].field.val.query
              IN  /\ other_filters[k] =
                        "to_tsvector('" \o q.lang \o "',object->>'"
                            \o (IF q.target.some THEN q.target.val ELSE Str(ft[k].key))
                            \o "') @@ " \o q.syntax \o "('" \o q.lang \o "',$"
                            \o IntToStr(bind_index + (k - 1)) \o ")"
                  /\ other_bindings[k] = Str(fields[ft[k].key])
        /\ caller = "json_search" => bind_index = 5
        /\ caller = "json_count" => bind_index = 2
        /\ \A c \in DOMAIN client :
              client[c].op = "query_raw"
              => /\ Len(client[c].params) = (bind_index - 1) + Len(other_bindings)
                 /\ \A k \in 1..Len(other_bindings) :
                       client[c].params[bind_index + (k - 1)] = other_bindings[k]

\* json_search has sent two bound values, the second one holding a separator
C7_TwoValuesSent ==
    /\ caller = "json_search"
    /\ Len(other_bindings) = 2
    /\ other_bindings[2] = "1_or_x"
    /\ client # <<>>
    /\ client[Len(client)].op = "query_raw"
    /\ client[Len(client)].params[6] = "1_or_x"

\* C8: the loop iteration that visits f!, f a Fulltext field, leaves the
\* three lists as they were, returns no error and goes on with the next key.
C8_NegatedFulltextLeavesListsUnchanged ==
    [][\A f \in DOMAIN schema.fields :
          (/\ schema.fields[f].kind = "Fulltext"
           /\ Bang(f) \notin DOMAIN schema.fields
           /\ Len(visited') = Len(visited) + 1
           /\ visited'[Len(visited')].key = Bang(f))
          => /\ jsonb_filters' = jsonb_filters
             /\ other_filters' = other_filters
             /\ other_bindings' = other_bindings
             /\ visited'[Len(visited')].ok
             /\ result' = result
             /\ pc' = "loop"]_vars

\* t! was visited after one Fulltext key and before another: the second
\* one still got the next placeholder
C8_NegatedFulltextVisited ==
    /\ Len(visited) = 2
    /\ visited[1].key = Bang(K_t)
    /\ visited[1].ok
    /\ visited[2].key = K_s
    /\ bind_index = 5
    /\ other_bindings = <<"1">>
    /\ other_filters
         = <<"to_tsvector('simple',object->>'title') @@ phraseto_tsquery('simple',$5)">>

Comparison(f, op, n) == "($." \o Str(f) \o " " \o op \o " " \o IntToStr(n) \o ")"

\* what the alias key of the Range field f compiles to, for the value v of
\* one integer atom or of two integer atoms around a separator
AliasFragmentIs(jsonb, f, op, v) ==
    /\ ParseI64(v).ok => jsonb = <<"(" \o Comparison(f, op, ParseI64(v).val) \o ")">>
    /\ \A a \in Substrings(v), b \in Substrings(v), sep \in {AND_, OR_} :
          (v = a \o <<"_">> \o sep \o b /\ ParseI64(a).ok /\ ParseI64(b).ok)
          => jsonb = <<"(" \o Comparison(f, op, ParseI64(a).val) \o " "
                          \o OperatorOf(sep) \o " "
                          \o Comparison(f, op, ParseI64(b).val) \o ")">>

\* C9: a key that is a field name resolves to that field and its declared
\* kind; a key that is no field name and is the min alias (the max alias) of
\* a Range field resolves to the name of that field with kind Min (Max), and
\* its integer atoms compile to name > n (name < n).
C9_AliasResolvesToCanonicalField ==
    \A i \in DOMAIN visited :
        LET e == visited[i]
        IN  /\ e.key \in DOMAIN schema.fields
               => e.field = Some(Field(e.key, schema.fields[e.key]))
            /\ (/\ e.key \notin DOMAIN schema.fields
                /\ \E f \in DOMAIN schema.fields :
                      /\ schema.fields[f].kind = "Range"
                      /\ e.key \in {schema.fields[f].min, schema.fields[f].max})
               => \E f \in DOMAIN schema.fields :
                     /\ schema.fields[f].kind = "Range"
                     /\ \/ /\ e.key = schema.fields[f].min
                           /\ e.field = Some(Field(f, Min))
                           /\ e.ok => AliasFragmentIs(e.jsonb, f, ">", fields[e.key])
                        \/ /\ e.key = schema.fields[f].max
                           /\ e.field = Some(Field(f, Max))
                           /\ e.ok => AliasFragmentIs(e.jsonb, f, "<", fields[e.key])

\* the min alias of y was visited with two integer atoms
C9_MinAliasVisited ==
    \E i \in DOMAIN visited :
        /\ schema = SchemaA
        /\ visited[i].key = K_yn
        /\ fields[K_yn] = V_0_and_1
        /\ visited[i].jsonb = <<"(($.y > 0) && ($.y > 1))">>

\* C10: a call of json_search that returns the invalid-number or the
\* invalid-boolean error has not used the store client: no statement was
\* prepared, no query was run.
C10_InvalidInputNeverReachesStore ==
    (/\ caller = "json_search"
     /\ pc = "returned"
     /\ ~outcome.ok
     /\ outcome.err \in {"InvalidNumberError", "InvalidBoolError"})
    => client = <<>>

=============================================================================
